---- MODULE Spec2Model ----
(***************************************************************************)
(* Model of lambda-money-manager:                                          *)
(*   Models/DynamoDBModel.py    generic CRUD over one DynamoDB table       *)
(*   Models/Money.py            aggregation over money_table               *)
(*   Services/SendLineService.py  writer for line_transaction_t            *)
(*   lambda_function.py         webhook handler and message parser         *)
(*                                                                         *)
(* Conventions.                                                            *)
(*   - A Python Optional value is a sequence of length 0 (None) or 1.      *)
(*   - A stored item is a function from attribute names to values; an      *)
(*     attribute that is not stored is not in the DOMAIN.                  *)
(*   - A table is a function from the primary keys in use to items.        *)
(*   - An ISO-8601 timestamp string is the triple <<year, month, tick>>,   *)
(*     compared lexicographically like the strings DynamoDB compares.      *)
(*   - Japanese literals are written in ASCII: "income" is the tag         *)
(*     U+53CE U+5165, "expense" is U+652F U+51FA, and so on.               *)
(***************************************************************************)
EXTENDS Integers, Sequences, FiniteSets, TLC

VARIABLES table, line, now, result, text, parsed, request

vars == <<table, line, now, result, text, parsed, request>>

----------------------------------------------------------------------------
(* Bounds of the model *)

MaxTime == 1

TicksPerMonth == 2

MaxKwargs == 2

MaxRecords == 2

MaxCreated == 2

MaxKeywordText == 4

MaxNumberText == 6

MaxEvents == 3

FloatScale == MaxNumberText

Keys == {"k1", "k2"}

Amounts == {50, 100}

Epoch == <<2024, 12>>

----------------------------------------------------------------------------
(* Python values *)

None == <<>>

Some(v) == <<v>>

Opt(S) == {None} \cup {Some(v) : v \in S}

EmptyItem == [a \in {} |-> 0]

(* A dict with the single entry k: v. *)
Entry(k, v) == [a \in {k} |-> v]

(* The dict with its None values left in. *)
DropNone_unfiltered(d) ==
    [a \in DOMAIN d |-> IF d[a] = None THEN None ELSE d[a][1]]

(* dict comprehension {k: v for k, v in d.items() if v is not None} *)
DropNone(d) ==
    [a \in {b \in DOMAIN d : d[b] # None} |-> d[a][1]]

(* dict.update: the entries of e override those of d *)
DictUpdate(d, e) ==
    [a \in DOMAIN d \cup DOMAIN e |-> IF a \in DOMAIN e THEN e[a] ELSE d[a]]

----------------------------------------------------------------------------
(* Time: datetime.now().isoformat() *)

isoformat(n) ==
    LET months == (Epoch[2] - 1) + (n \div TicksPerMonth)
    IN  <<Epoch[1] + (months \div 12), (months % 12) + 1, n % TicksPerMonth>>

_get_current_timestamp == isoformat(now)

(* Lexicographic order of two timestamp strings, s <= t. *)
StrLE(s, t) ==
    \/ s[1] < t[1]
    \/ s[1] = t[1] /\ s[2] < t[2]
    \/ s[1] = t[1] /\ s[2] = t[2] /\ s[3] <= t[3]

----------------------------------------------------------------------------
(* The DynamoDB table resource as the code uses it *)

EmptyTable == [k \in {} |-> EmptyItem]

(* Table.put_item(Item=item): the item replaces whatever is stored under its key. *)
put_item(tbl, key, item) ==
    [k \in DOMAIN tbl \cup {key} |-> IF k = key THEN item ELSE tbl[k]]

(* Table.get_item(Key=...): the response has an 'Item' entry iff the key is stored. *)
get_item(tbl, key) ==
    IF key \in DOMAIN tbl THEN Some(tbl[key]) ELSE None

(* update_item storing the key and the assigned attributes in place of the item. *)
update_item_replacing(tbl, keyattr, key, sets) ==
    put_item(tbl, key, DictUpdate(Entry(keyattr, key), sets))

(* Table.update_item(Key=..., UpdateExpression="SET ...", ReturnValues="ALL_NEW"): *)
(* SET assigns the named attributes and leaves the others; an item that does not   *)
(* exist is created with the key attribute and the assigned attributes.            *)
update_item(tbl, keyattr, key, sets) ==
    LET old == IF key \in DOMAIN tbl THEN tbl[key] ELSE Entry(keyattr, key)
    IN  put_item(tbl, key, DictUpdate(old, sets))

(* Table.delete_item(Key=...) *)
delete_item(tbl, key) ==
    [k \in DOMAIN tbl \ {key} |-> tbl[k]]

(* FilterExpression "attribute_not_exists(deleted_at)" *)
attribute_not_exists(item, attr) == attr \notin DOMAIN item

(* Table.scan(FilterExpression=...): the items that satisfy the filter, by key; *)
(* filter[k] is the value of the filter expression on the item stored under k.  *)
scan(tbl, filter) ==
    [k \in {j \in DOMAIN tbl : filter[j]} |-> tbl[k]]

(* The error of a storage exception, str(e). *)
StorageError == "storage error"

----------------------------------------------------------------------------
(* Models/DynamoDBModel.py *)

(* create(): the instance's fields, fresh timestamps, None values dropped. *)
CreateItem(pk, tt, cat, desc, amt, ts) ==
    DropNone(
        [a \in {"pk", "created_at", "updated_at", "deleted_at",
                "transaction_type", "category", "description", "amount"} |->
            CASE a = "pk" -> Some(pk)
              [] a = "created_at" -> Some(ts)
              [] a = "updated_at" -> Some(ts)
              [] a = "deleted_at" -> None
              [] a = "transaction_type" -> tt
              [] a = "category" -> cat
              [] a = "description" -> desc
              [] a = "amount" -> amt])

(* create() without the try/except around put_item. *)
create_uncaught(tbl, pk, tt, cat, desc, amt, ts, fail) ==
    LET item == CreateItem(pk, tt, cat, desc, amt, ts)
    IN  IF fail
        THEN [table |-> tbl,
              result |-> [op |-> "create", outcome |-> "raised", pk |-> pk,
                          error |-> StorageError]]
        ELSE [table |-> put_item(tbl, pk, item),
              result |-> [op |-> "create", outcome |-> "returned", pk |-> pk,
                          success |-> TRUE, data |-> item]]

create(tbl, pk, tt, cat, desc, amt, ts, fail) ==
    LET item == CreateItem(pk, tt, cat, desc, amt, ts)
    IN  IF fail
        THEN [table |-> tbl,
              result |-> [op |-> "create", outcome |-> "returned", pk |-> pk,
                          success |-> FALSE, error |-> StorageError]]
        ELSE [table |-> put_item(tbl, pk, item),
              result |-> [op |-> "create", outcome |-> "returned", pk |-> pk,
                          success |-> TRUE, data |-> item]]

(* read() without the 'Item' in response test: response['Item'] raises KeyError, *)
(* which the except clause turns into a failure with that error.                *)
read_unchecked(tbl, pk, fail) ==
    LET response == get_item(tbl, pk)
    IN  IF fail
        THEN [op |-> "read", outcome |-> "returned", pk |-> pk,
              success |-> FALSE, error |-> StorageError]
        ELSE IF response # None
        THEN [op |-> "read", outcome |-> "returned", pk |-> pk,
              success |-> TRUE, data |-> response[1]]
        ELSE [op |-> "read", outcome |-> "returned", pk |-> pk,
              success |-> FALSE, error |-> "'Item'"]

read(tbl, pk, fail) ==
    LET response == get_item(tbl, pk)
    IN  IF fail
        THEN [op |-> "read", outcome |-> "returned", pk |-> pk,
              success |-> FALSE, error |-> StorageError]
        ELSE IF response # None
        THEN [op |-> "read", outcome |-> "returned", pk |-> pk,
              success |-> TRUE, data |-> response[1]]
        ELSE [op |-> "read", outcome |-> "returned", pk |-> pk,
              success |-> FALSE, error |-> "Item not found"]

(* The keyword arguments that end up in the SET expression of update(). *)
UpdateSets(keyattr, kwargs, ts) ==
    DictUpdate(Entry("updated_at", ts),
               DropNone([a \in {b \in DOMAIN kwargs : b # keyattr} |-> kwargs[a]]))

(* update() removing the attributes whose supplied value is None. *)
update_removing_none(tbl, pk, kwargs, ts, fail) ==
    IF "pk" \in DOMAIN kwargs
    THEN [table |-> tbl,
          result |-> [op |-> "update", outcome |-> "raised", pk |-> pk,
                      error |-> "TypeError"]]
    ELSE IF fail
    THEN [table |-> tbl,
          result |-> [op |-> "update", outcome |-> "returned", pk |-> pk,
                      success |-> FALSE, error |-> StorageError]]
    ELSE LET set == update_item(tbl, "pk", pk, UpdateSets("pk", kwargs, ts))
             kept == DOMAIN set[pk] \ {a \in DOMAIN kwargs : kwargs[a] = None}
             new == put_item(set, pk, [a \in kept |-> set[pk][a]])
         IN  [table |-> new,
              result |-> [op |-> "update", outcome |-> "returned", pk |-> pk,
                          success |-> TRUE, data |-> new[pk]]]

(* update() with the key taken from the supplied fields when they name one. *)
update_rekey(tbl, pk, kwargs, ts, fail) ==
    LET key == IF "pk" \in DOMAIN kwargs /\ kwargs["pk"] # None
               THEN kwargs["pk"][1] ELSE pk
    IN  IF fail
        THEN [table |-> tbl,
              result |-> [op |-> "update", outcome |-> "returned", pk |-> pk,
                          success |-> FALSE, error |-> StorageError]]
        ELSE LET new == update_item(tbl, "pk", key, UpdateSets("pk", kwargs, ts))
             IN  [table |-> new,
                  result |-> [op |-> "update", outcome |-> "returned", pk |-> pk,
                              success |-> TRUE, data |-> new[key]]]

(* update(pk, **kwargs).  Python binds the first parameter by name too, so a *)
(* keyword argument named like it fails the call with TypeError before the  *)
(* body runs.                                                               *)
update(tbl, pk, kwargs, ts, fail) ==
    IF "pk" \in DOMAIN kwargs
    THEN [table |-> tbl,
          result |-> [op |-> "update", outcome |-> "raised", pk |-> pk,
                      error |-> "TypeError"]]
    ELSE IF fail
    THEN [table |-> tbl,
          result |-> [op |-> "update", outcome |-> "returned", pk |-> pk,
                      success |-> FALSE, error |-> StorageError]]
    ELSE LET new == update_item(tbl, "pk", pk, UpdateSets("pk", kwargs, ts))
         IN  [table |-> new,
              result |-> [op |-> "update", outcome |-> "returned", pk |-> pk,
                          success |-> TRUE, data |-> new[pk]]]

(* delete(pk, soft_delete) *)
delete(tbl, pk, soft_delete, ts, fail) ==
    IF fail
    THEN [table |-> tbl,
          result |-> [op |-> "delete", outcome |-> "returned", pk |-> pk,
                      soft_delete |-> soft_delete,
                      success |-> FALSE, error |-> StorageError]]
    ELSE IF soft_delete
    THEN LET new == update_item(tbl, "pk", pk, Entry("deleted_at", ts))
         IN  [table |-> new,
              result |-> [op |-> "delete", outcome |-> "returned", pk |-> pk,
                          soft_delete |-> soft_delete,
                          success |-> TRUE, data |-> new[pk]]]
    ELSE [table |-> delete_item(tbl, pk),
          result |-> [op |-> "delete", outcome |-> "returned", pk |-> pk,
                      soft_delete |-> soft_delete,
                      success |-> TRUE, data |-> Entry("pk", pk)]]

NotDeleted(item) == attribute_not_exists(item, "deleted_at")

AnyItem(item) == TRUE

(* list_all() with the filter expression left out. *)
list_all_items_unfiltered(tbl, include_deleted) ==
    scan(tbl, [k \in DOMAIN tbl |-> AnyItem(tbl[k])])

(* The items list_all(include_deleted) returns when the scan succeeds. *)
list_all_items(tbl, include_deleted) ==
    IF include_deleted THEN scan(tbl, [k \in DOMAIN tbl |-> AnyItem(tbl[k])])
    ELSE scan(tbl, [k \in DOMAIN tbl |-> NotDeleted(tbl[k])])

list_all(tbl, include_deleted, fail) ==
    IF fail
    THEN [op |-> "list_all", outcome |-> "returned",
          success |-> FALSE, error |-> StorageError]
    ELSE LET items == list_all_items(tbl, include_deleted)
         IN  [op |-> "list_all", outcome |-> "returned", success |-> TRUE,
              include_deleted |-> include_deleted,
              data |-> items, count |-> Cardinality(DOMAIN items)]

(* The query with the filter on the field alone. *)
query_items_any_state(tbl, field, value) ==
    LET Match(item) == /\ field \in DOMAIN item
                       /\ item[field] = value
    IN  scan(tbl, [k \in DOMAIN tbl |-> Match(tbl[k])])

(* FilterExpression "<field> = :v AND attribute_not_exists(deleted_at)" *)
query_items(tbl, field, value) ==
    LET Match(item) == /\ field \in DOMAIN item
                       /\ item[field] = value
                       /\ attribute_not_exists(item, "deleted_at")
    IN  scan(tbl, [k \in DOMAIN tbl |-> Match(tbl[k])])

query_by_transaction_type(tbl, transaction_type, fail) ==
    IF fail
    THEN [op |-> "query_by_transaction_type", outcome |-> "returned",
          success |-> FALSE, error |-> StorageError]
    ELSE LET items == query_items(tbl, "transaction_type", transaction_type)
         IN  [op |-> "query_by_transaction_type", outcome |-> "returned",
              success |-> TRUE, value |-> transaction_type,
              data |-> items, count |-> Cardinality(DOMAIN items)]

query_by_category(tbl, category, fail) ==
    IF fail
    THEN [op |-> "query_by_category", outcome |-> "returned",
          success |-> FALSE, error |-> StorageError]
    ELSE LET items == query_items(tbl, "category", category)
         IN  [op |-> "query_by_category", outcome |-> "returned",
              success |-> TRUE, value |-> category,
              data |-> items, count |-> Cardinality(DOMAIN items)]

----------------------------------------------------------------------------
(* Models/Money.py *)

INCOME == "income"

EXPENSE == "expense"

get_income_records(tbl, fail) == query_by_transaction_type(tbl, INCOME, fail)

get_expense_records(tbl, fail) == query_by_transaction_type(tbl, EXPENSE, fail)

(* A stored amount that is no number: a non-empty string such as 'abc', which  *)
(* update(pk, amount='abc') stores.  It is kept as an integer outside the       *)
(* amounts, since TLC compares values of one type only.                         *)
NonNumeric == 0 - 1

(* float(item['amount']) raises ValueError, and 0 + amount raises TypeError. *)
BadAmount(item) == "amount" \in DOMAIN item /\ item["amount"] = NonNumeric

(* Python truthiness of an Optional[str] argument *)
Truthy(s) == s # None /\ s[1] # ""

(* for item in result['data']: if item.get('amount') is not None: total += ... *)
RECURSIVE TotalLoop(_, _)
TotalLoop(items, S) ==
    IF S = {} THEN 0
    ELSE LET k == CHOOSE x \in S : TRUE
             item == items[k]
         IN  (IF "amount" \in DOMAIN item THEN item["amount"] ELSE 0)
             + TotalLoop(items, S \ {k})

(* get_total_amount() counting only the records that entered the sum. *)
get_total_amount_counting_amounts(tbl, transaction_type, fail) ==
    LET inner == IF Truthy(transaction_type)
                 THEN query_by_transaction_type(tbl, transaction_type[1], fail)
                 ELSE list_all(tbl, FALSE, fail)
    IN  IF ~inner.success
        THEN [op |-> "get_total_amount", outcome |-> "returned",
              success |-> FALSE, error |-> inner.error, inner |-> inner]
        ELSE [op |-> "get_total_amount", outcome |-> "returned",
              success |-> TRUE,
              total_amount |-> TotalLoop(inner.data, DOMAIN inner.data),
              record_count |-> Cardinality({k \in DOMAIN inner.data :
                                              "amount" \in DOMAIN inner.data[k]}),
              transaction_type |-> transaction_type]

(* get_total_amount(transaction_type): the failure result of the query is    *)
(* returned as it is; the loop is outside any try block, so the ValueError of *)
(* float() on an amount that is no number leaves the function.                *)
get_total_amount(tbl, transaction_type, fail) ==
    LET inner == IF Truthy(transaction_type)
                 THEN query_by_transaction_type(tbl, transaction_type[1], fail)
                 ELSE list_all(tbl, FALSE, fail)
    IN  IF ~inner.success
        THEN [op |-> "get_total_amount", outcome |-> "returned",
              success |-> FALSE, error |-> inner.error, inner |-> inner]
        ELSE IF \E k \in DOMAIN inner.data : BadAmount(inner.data[k])
        THEN [op |-> "get_total_amount", outcome |-> "raised",
              error |-> "ValueError"]
        ELSE [op |-> "get_total_amount", outcome |-> "returned",
              success |-> TRUE,
              total_amount |-> TotalLoop(inner.data, DOMAIN inner.data),
              record_count |-> Cardinality(DOMAIN inner.data),
              transaction_type |-> transaction_type]

(* datetime(year, month, 1).isoformat() *)
FirstOfMonth(year, month) == <<year, month, 0>>

(* "created_at BETWEEN :start_date AND :end_date AND attribute_not_exists(deleted_at)" *)
MonthlyRecords(tbl, start_date, end_date) ==
    LET InRange(item) == /\ "created_at" \in DOMAIN item
                         /\ StrLE(start_date, item["created_at"])
                         /\ StrLE(item["created_at"], end_date)
                         /\ attribute_not_exists(item, "deleted_at")
    IN  scan(tbl, [k \in DOMAIN tbl |-> InRange(tbl[k])])

(* The loop of get_monthly_summary over the records of one transaction type: *)
(* amount = record.get('amount', 0) or 0                                      *)
RECURSIVE BucketTotal(_, _, _)
BucketTotal(records, S, tt) ==
    IF S = {} THEN 0
    ELSE LET k == CHOOSE x \in S : TRUE
             record == records[k]
             amount == IF "amount" \in DOMAIN record THEN record["amount"] ELSE 0
             transaction_type == IF "transaction_type" \in DOMAIN record
                                 THEN record["transaction_type"] ELSE ""
         IN  (IF transaction_type = tt THEN amount ELSE 0)
             + BucketTotal(records, S \ {k}, tt)

(* The count of the records of one transaction type that have an amount. *)
BucketCount_counting_amounts(records, tt) ==
    Cardinality({k \in DOMAIN records :
                    /\ "transaction_type" \in DOMAIN records[k]
                    /\ records[k]["transaction_type"] = tt
                    /\ "amount" \in DOMAIN records[k]})

BucketCount(records, tt) ==
    Cardinality({k \in DOMAIN records :
                    /\ "transaction_type" \in DOMAIN records[k]
                    /\ records[k]["transaction_type"] = tt})

(* get_monthly_summary(year, month): datetime(year, month, 1) is evaluated     *)
(* before the try block, so its ValueError for a month outside 1..12 leaves    *)
(* the function; the scan and the loop are inside the try block.               *)
get_monthly_summary(tbl, year, month, fail) ==
    IF month \notin 1..12
    THEN [op |-> "get_monthly_summary", outcome |-> "raised",
          error |-> "ValueError"]
    ELSE IF fail
    THEN [op |-> "get_monthly_summary", outcome |-> "returned",
          success |-> FALSE, error |-> StorageError]
    ELSE LET start_date == FirstOfMonth(year, month)
             end_date == IF month = 12 THEN FirstOfMonth(year + 1, 1)
                         ELSE FirstOfMonth(year, month + 1)
             records == MonthlyRecords(tbl, start_date, end_date)
             income_total == BucketTotal(records, DOMAIN records, INCOME)
             expense_total == BucketTotal(records, DOMAIN records, EXPENSE)
         IN  IF \E k \in DOMAIN records :
                    /\ BadAmount(records[k])
                    /\ "transaction_type" \in DOMAIN records[k]
                    /\ records[k]["transaction_type"] \in {INCOME, EXPENSE}
             THEN [op |-> "get_monthly_summary", outcome |-> "returned",
                   success |-> FALSE, error |-> "TypeError"]
             ELSE
             [op |-> "get_monthly_summary", outcome |-> "returned",
              success |-> TRUE, year |-> year, month |-> month,
              income_total |-> income_total,
              expense_total |-> expense_total,
              net_amount |-> income_total - expense_total,
              income_count |-> BucketCount(records, INCOME),
              expense_count |-> BucketCount(records, EXPENSE),
              total_records |-> Cardinality(DOMAIN records)]

----------------------------------------------------------------------------
(* Calls on a DynamoDBModel instance (money_table), in any order *)

NoResult == [op |-> "none"]

NoRequest == [body |-> "none"]

Init ==
    /\ table = EmptyTable
    /\ line = EmptyTable
    /\ now = 0
    /\ result = NoResult
    /\ text = <<>>
    /\ parsed = NoResult
    /\ request = NoRequest

(* The clock moves between calls. *)
Tick ==
    /\ now < MaxTime
    /\ now' = now + 1
    /\ UNCHANGED <<table, line, result, text, parsed, request>>

Create ==
    \E pk \in Keys, tt \in Opt({INCOME}), fail \in BOOLEAN :
        LET r == create(table, pk, tt, None, None, None, _get_current_timestamp, fail)
        IN  /\ table' = r.table
            /\ result' = r.result
            /\ UNCHANGED <<line, now, text, parsed, request>>

Read ==
    \E pk \in Keys, fail \in BOOLEAN :
        /\ result' = read(table, pk, fail)
        /\ UNCHANGED <<table, line, now, text, parsed, request>>

(* The ways to pass, or not to pass, one keyword argument. *)
KwChoice(name, values) == {EmptyItem} \cup {Entry(name, v) : v \in Opt(values)}

Update ==
    \E pk \in Keys, kpk \in KwChoice("pk", Keys),
       ktt \in KwChoice("transaction_type", {INCOME}),
       kdel \in KwChoice("deleted_at", {_get_current_timestamp}),
       fail \in BOOLEAN :
        LET kwargs == kpk @@ ktt @@ kdel
            r == update(table, pk, kwargs, _get_current_timestamp, fail)
        IN  /\ Cardinality(DOMAIN kwargs) <= MaxKwargs
            /\ table' = r.table
            /\ result' = r.result
            /\ UNCHANGED <<line, now, text, parsed, request>>

Delete ==
    \E pk \in Keys, soft_delete \in BOOLEAN, fail \in BOOLEAN :
        LET r == delete(table, pk, soft_delete, _get_current_timestamp, fail)
        IN  /\ table' = r.table
            /\ result' = r.result
            /\ UNCHANGED <<line, now, text, parsed, request>>

ListAll ==
    \E include_deleted \in BOOLEAN, fail \in BOOLEAN :
        /\ result' = list_all(table, include_deleted, fail)
        /\ UNCHANGED <<table, line, now, text, parsed, request>>

Next ==
    \/ Tick
    \/ Create
    \/ Read
    \/ Update
    \/ Delete
    \/ ListAll

Spec == Init /\ [][Next]_vars

----------------------------------------------------------------------------
(* SpecCalls: the calls on the record store within one instant of the clock, *)
(* the field queries among them.                                             *)

QueryByTransactionType ==
    \E transaction_type \in {INCOME}, fail \in BOOLEAN :
        /\ result' = query_by_transaction_type(table, transaction_type, fail)
        /\ UNCHANGED <<table, line, now, text, parsed, request>>

QueryByCategory ==
    \E category \in {"food"}, fail \in BOOLEAN :
        /\ result' = query_by_category(table, category, fail)
        /\ UNCHANGED <<table, line, now, text, parsed, request>>

NextCalls ==
    \/ Create
    \/ Read
    \/ Update
    \/ Delete
    \/ ListAll
    \/ QueryByTransactionType
    \/ QueryByCategory

SpecCalls == Init /\ [][NextCalls]_vars

----------------------------------------------------------------------------
(* SpecUpdate: records are created and updated as the clock moves; the result *)
(* of an update keeps, for the properties, the keyword arguments of the call. *)

UpdateFields ==
    \E pk \in Keys,
       ktt \in KwChoice("transaction_type", {EXPENSE}),
       kcat \in KwChoice("category", {"food"}),
       fail \in BOOLEAN :
        LET kwargs == ktt @@ kcat
            r == update(table, pk, kwargs, _get_current_timestamp, fail)
        IN  /\ Cardinality(DOMAIN kwargs) <= MaxKwargs
            /\ table' = r.table
            /\ result' = r.result @@ [kwargs |-> kwargs]
            /\ UNCHANGED <<line, now, text, parsed, request>>

NextUpdate ==
    \/ Tick
    \/ Create
    \/ UpdateFields

SpecUpdate == Init /\ [][NextUpdate]_vars

----------------------------------------------------------------------------
(* SpecDeleted: records are created, soft- and hard-deleted, updated with and   *)
(* without a deleted_at argument, listed and queried; the result of an update   *)
(* keeps, for the properties, the keyword arguments of the call.                *)

UpdateDeletedAt ==
    \E pk \in Keys,
       kcat \in KwChoice("category", {"food"}),
       kdel \in KwChoice("deleted_at", {_get_current_timestamp}),
       fail \in BOOLEAN :
        LET kwargs == kcat @@ kdel
            r == update(table, pk, kwargs, _get_current_timestamp, fail)
        IN  /\ Cardinality(DOMAIN kwargs) <= MaxKwargs
            /\ table' = r.table
            /\ result' = r.result @@ [kwargs |-> kwargs]
            /\ UNCHANGED <<line, now, text, parsed, request>>

NextDeleted ==
    \/ Create
    \/ UpdateDeletedAt
    \/ Delete
    \/ ListAll
    \/ QueryByTransactionType
    \/ QueryByCategory

SpecDeleted == Init /\ [][NextDeleted]_vars

----------------------------------------------------------------------------
(* Money aggregation as functions of the stored records: SpecMoney starts from *)
(* any table of records that create() wrote and delete() soft-deleted, and      *)
(* applies get_total_amount and get_monthly_summary to it.                      *)

KeyNames == <<"k1", "k2", "k3", "k4">>

MoneyKeys == {KeyNames[i] : i \in 1..MaxRecords}

Instants == 0..MaxCreated

(* The (year, month) arguments: the months around the instants, and month 13. *)
MonthArgs == {<<2024, 11>>, <<2024, 12>>, <<2025, 1>>, <<2024, 13>>}

(* The item create() wrote at instant c, soft-deleted at that instant or not. *)
StoredItem(pk, tt, amt, c, deleted) ==
    LET item == CreateItem(pk, tt, None, None, amt, isoformat(c))
    IN  IF deleted THEN DictUpdate(item, Entry("deleted_at", isoformat(c))) ELSE item

(* A soft-deleted record is given an amount, so that counting it shows. *)
StoredItems(pk) ==
    {StoredItem(pk, tt, amt, c, FALSE) :
        tt \in Opt({INCOME, EXPENSE}), amt \in Opt(Amounts), c \in Instants}
    \cup {StoredItem(pk, tt, Some(100), c, TRUE) :
        tt \in Opt({INCOME, EXPENSE}), c \in Instants}

StoredTables ==
    UNION {{t \in [S -> UNION {StoredItems(k) : k \in S}] :
                \A k \in S : t[k]["pk"] = k} : S \in SUBSET MoneyKeys}

InitMoney ==
    /\ table \in StoredTables
    /\ line = EmptyTable
    /\ now = MaxCreated
    /\ result = NoResult
    /\ text = <<>>
    /\ parsed = NoResult
    /\ request = NoRequest

GetTotalAmount ==
    \E tt \in Opt({INCOME, EXPENSE, ""}), fail \in BOOLEAN :
        /\ result' = get_total_amount(table, tt, fail)
        /\ UNCHANGED <<table, line, now, text, parsed, request>>

GetMonthlySummary ==
    \E ym \in MonthArgs, fail \in BOOLEAN :
        /\ result' = get_monthly_summary(table, ym[1], ym[2], fail)
        /\ UNCHANGED <<table, line, now, text, parsed, request>>

NextMoney ==
    \/ GetTotalAmount
    \/ GetMonthlySummary

SpecMoney == InitMoney /\ [][NextMoney]_vars

----------------------------------------------------------------------------
(* SpecFailures: the two aggregations on tables whose records update() has    *)
(* given an amount, which update() does not validate, or none.                *)

UpdatedItems(pk) ==
    {update(create(EmptyTable, pk, tt, None, None, None, isoformat(0), FALSE).table,
            pk, Entry("amount", amt), isoformat(0), FALSE).table[pk] :
        tt \in Opt({INCOME, EXPENSE}), amt \in Opt({100, NonNumeric})}

UpdatedTables ==
    UNION {{t \in [S -> UNION {UpdatedItems(k) : k \in S}] :
                \A k \in S : t[k]["pk"] = k} : S \in SUBSET MoneyKeys}

InitFailures ==
    /\ table \in UpdatedTables
    /\ line = EmptyTable
    /\ now = 0
    /\ result = NoResult
    /\ text = <<>>
    /\ parsed = NoResult
    /\ request = NoRequest

SpecFailures == InitFailures /\ [][NextMoney]_vars

----------------------------------------------------------------------------
(* lambda_function.py: _parse_message                                         *)
(*                                                                             *)
(* A message text is a sequence of characters.  The digits, "," and "." are    *)
(* themselves; every other character is named in ASCII:                        *)
(*   kyuu yo   U+7D66 U+4E0E        bo long na su  U+30DC U+30FC U+30CA U+30B9 *)
(*   shou      U+8CDE               shuu nyuu      U+53CE U+5165               *)
(*   kin       U+91D1               uri ue         U+58F2 U+4E0A               *)
(*   shoku hi  U+98DF U+8CBB        ji chuu yuu chou  U+4E8B U+663C U+5915 U+671D *)
(*   ben tou   U+5F01 U+5F53        re to ra n     U+30EC U+30C8 U+30E9 U+30F3 *)
(*   kou tsuu  U+4EA4 U+901A        den sha        U+96FB U+8ECA               *)
(*   ba ta ku shi  U+30D0 U+30BF U+30AF U+30B7     ga so ri  U+30AC U+30BD U+30EA *)
(*   ya chin   U+5BB6 U+8CC3        juu kyo tai    U+4F4F U+5C45 U+8CB8        *)
(*   hikari netsu  U+5149 U+71B1    ki sui dou     U+6C17 U+6C34 U+9053        *)
(*   i ryou    U+533B U+7642        byou in kusuri U+75C5 U+9662 U+85AC        *)
(*   go raku   U+5A2F U+697D        ei kaku        U+6620 U+753B               *)
(*   ge mu hon U+30B2 U+30E0 U+672C kai i_h mono   U+8CB7 U+3044 U+7269        *)
(*   yo_s tsu_s pi gu  U+30E7 U+30C3 U+30D4 U+30B0 fuku zatsu ka U+670D U+96D1 U+8CA8 *)
(*   en        U+5186                                                          *)
(* The category names: "salary" U+7D66 U+4E0E, "income" U+53CE U+5165,         *)
(* "food" U+98DF U+8CBB, "transport" U+4EA4 U+901A U+8CBB, "housing" U+4F4F    *)
(* U+5C45 U+8CBB, "utilities" U+5149 U+71B1 U+8CBB, "medical" U+533B U+7642    *)
(* U+8CBB, "entertainment" U+5A2F U+697D U+8CBB, "shopping" U+8CB7 U+3044      *)
(* U+7269, "other" U+305D U+306E U+4ED6.                                       *)

Digits == {"0", "1", "2", "3", "4", "5", "6", "7", "8", "9"}

IsDigit(c) == c \in Digits

DigitValue(c) ==
    CASE c = "0" -> 0 [] c = "1" -> 1 [] c = "2" -> 2 [] c = "3" -> 3
      [] c = "4" -> 4 [] c = "5" -> 5 [] c = "6" -> 6 [] c = "7" -> 7
      [] c = "8" -> 8 [] c = "9" -> 9

(* \d+ from position i: the index of the last digit of the run of digits that *)
(* starts at i (i - 1 when there is no digit at i).                           *)
RECURSIVE DigitsEnd(_, _)
DigitsEnd(s, i) ==
    IF i <= Len(s) /\ IsDigit(s[i]) THEN DigitsEnd(s, i + 1) ELSE i - 1

(* (?:,\d{3})* after position e: as many groups as match, greedily. *)
RECURSIVE GroupsEnd(_, _)
GroupsEnd(s, e) ==
    IF /\ e + 4 <= Len(s)
       /\ s[e + 1] = ","
       /\ IsDigit(s[e + 2]) /\ IsDigit(s[e + 3]) /\ IsDigit(s[e + 4])
    THEN GroupsEnd(s, e + 4)
    ELSE e

(* The pattern without its fractional part. *)
FractionEnd_none(s, e) == e

(* (?:\.\d+)? after position e *)
FractionEnd(s, e) ==
    IF e + 2 <= Len(s) /\ s[e + 1] = "." /\ IsDigit(s[e + 2])
    THEN DigitsEnd(s, e + 2)
    ELSE e

(* re.search(r'(\d+(?:,\d{3})*(?:\.\d+)?)', s): group 1 of the leftmost match, or None. *)
re_search(s) ==
    IF \A i \in 1..Len(s) : ~IsDigit(s[i])
    THEN None
    ELSE LET start == CHOOSE i \in 1..Len(s) :
                          IsDigit(s[i]) /\ \A j \in 1..(i - 1) : ~IsDigit(s[j])
             end == FractionEnd(s, GroupsEnd(s, DigitsEnd(s, start)))
         IN  Some(SubSeq(s, start, end))

(* str.replace(',', '') *)
RECURSIVE RemoveCommas(_)
RemoveCommas(s) ==
    IF s = <<>> THEN <<>>
    ELSE IF Head(s) = "," THEN RemoveCommas(Tail(s))
    ELSE <<Head(s)>> \o RemoveCommas(Tail(s))

RECURSIVE Pow10(_)
Pow10(n) == IF n = 0 THEN 1 ELSE 10 * Pow10(n - 1)

(* The integer a string of digits denotes. *)
RECURSIVE IntOf(_)
IntOf(s) ==
    IF s = <<>> THEN 0
    ELSE 10 * IntOf(SubSeq(s, 1, Len(s) - 1)) + DigitValue(s[Len(s)])

(* float(s) on strings of digits, "," and ".": a ValueError unless s is digits *)
(* with at most one "." and at least one digit.  The value is kept exactly, as *)
(* the pair of its integer part and its fraction in units of 10^-FloatScale.   *)
float(s) ==
    LET dots == {i \in 1..Len(s) : s[i] = "."}
        wellformed == /\ \A i \in 1..Len(s) : IsDigit(s[i]) \/ s[i] = "."
                      /\ Cardinality(dots) <= 1
                      /\ \E i \in 1..Len(s) : IsDigit(s[i])
        dot == IF dots = {} THEN Len(s) + 1 ELSE CHOOSE i \in dots : TRUE
        whole == SubSeq(s, 1, dot - 1)
        fraction == SubSeq(s, dot + 1, Len(s))
    IN  IF ~wellformed
        THEN [raised |-> TRUE, value |-> <<0, 0>>]
        ELSE [raised |-> FALSE,
              value |-> <<IntOf(whole),
                          IntOf(fraction) * Pow10(FloatScale - Len(fraction))>>]

(* keyword in message_text *)
Contains(s, keyword) ==
    \E i \in 1..(Len(s) - Len(keyword) + 1) :
        SubSeq(s, i, i + Len(keyword) - 1) = keyword

(* any(keyword in message_text for keyword in keywords) *)
ContainsAny(s, keywords) == \E keyword \in keywords : Contains(s, keyword)

income_keywords ==
    {<<"kyuu", "yo">>, <<"bo", "long", "na", "su">>, <<"shou", "yo">>,
     <<"shuu", "nyuu">>, <<"nyuu", "kin">>, <<"uri", "ue">>}

salary_keywords ==
    {<<"kyuu", "yo">>, <<"bo", "long", "na", "su">>, <<"shou", "yo">>}

food_keywords ==
    {<<"shoku", "hi">>, <<"shoku", "ji">>, <<"chuu", "shoku">>, <<"yuu", "shoku">>,
     <<"chou", "shoku">>, <<"ben", "tou">>, <<"re", "su", "to", "ra", "n">>}

transport_keywords ==
    {<<"kou", "tsuu", "hi">>, <<"den", "sha">>, <<"ba", "su">>,
     <<"ta", "ku", "shi", "long">>, <<"ga", "so", "ri", "n">>}

housing_keywords ==
    {<<"ya", "chin">>, <<"juu", "kyo", "hi">>, <<"chin", "tai">>}

utilities_keywords ==
    {<<"hikari", "netsu", "hi">>, <<"den", "ki">>, <<"ga", "su">>, <<"sui", "dou">>}

medical_keywords ==
    {<<"i", "ryou", "hi">>, <<"byou", "in">>, <<"kusuri">>}

entertainment_keywords ==
    {<<"go", "raku">>, <<"ei", "kaku">>, <<"ge", "long", "mu">>, <<"hon">>}

shopping_keywords ==
    {<<"kai", "i_h", "mono">>, <<"shi", "yo_s", "tsu_s", "pi", "n", "gu">>,
     <<"fuku">>, <<"zatsu", "ka">>}

(* The result of the except branch. *)
DefaultParse(message_text) ==
    [transaction_type |-> EXPENSE, category |-> "other",
     description |-> message_text, amount |-> None]

(* The category of a text with an income keyword. *)
IncomeCategory(message_text) ==
    IF ContainsAny(message_text, salary_keywords) THEN "salary" ELSE "income"

(* The elif chain with the transport test moved after the utilities test. *)
ExpenseCategory_reordered(message_text) ==
    IF ContainsAny(message_text, food_keywords) THEN "food"
    ELSE IF ContainsAny(message_text, housing_keywords) THEN "housing"
    ELSE IF ContainsAny(message_text, utilities_keywords) THEN "utilities"
    ELSE IF ContainsAny(message_text, transport_keywords) THEN "transport"
    ELSE IF ContainsAny(message_text, medical_keywords) THEN "medical"
    ELSE IF ContainsAny(message_text, entertainment_keywords) THEN "entertainment"
    ELSE IF ContainsAny(message_text, shopping_keywords) THEN "shopping"
    ELSE "other"

(* The elif chain over the expense keyword groups. *)
ExpenseCategory(message_text) ==
    IF ContainsAny(message_text, food_keywords) THEN "food"
    ELSE IF ContainsAny(message_text, transport_keywords) THEN "transport"
    ELSE IF ContainsAny(message_text, housing_keywords) THEN "housing"
    ELSE IF ContainsAny(message_text, utilities_keywords) THEN "utilities"
    ELSE IF ContainsAny(message_text, medical_keywords) THEN "medical"
    ELSE IF ContainsAny(message_text, entertainment_keywords) THEN "entertainment"
    ELSE IF ContainsAny(message_text, shopping_keywords) THEN "shopping"
    ELSE "other"

(* The classification with the expense groups tested before the income keywords. *)
Classify_expense_first(message_text) ==
    IF ExpenseCategory(message_text) # "other"
    THEN [transaction_type |-> EXPENSE, category |-> ExpenseCategory(message_text)]
    ELSE IF ContainsAny(message_text, income_keywords)
    THEN [transaction_type |-> INCOME, category |-> IncomeCategory(message_text)]
    ELSE [transaction_type |-> EXPENSE, category |-> "other"]

(* transaction_type and category *)
Classify(message_text) ==
    IF ContainsAny(message_text, income_keywords)
    THEN [transaction_type |-> INCOME, category |-> IncomeCategory(message_text)]
    ELSE [transaction_type |-> EXPENSE, category |-> ExpenseCategory(message_text)]

(* _parse_message() with the description cut after the amount. *)
_parse_message_cut(message_text) ==
    LET amount_match == re_search(message_text)
        converted == IF amount_match = None THEN [raised |-> FALSE, value |-> <<0, 0>>]
                     ELSE float(RemoveCommas(amount_match[1]))
        amount == IF amount_match = None THEN None ELSE Some(converted.value)
        class == Classify(message_text)
        cut == IF amount_match = None THEN message_text
               ELSE SubSeq(message_text, 1, Len(message_text) - 1)
    IN  [op |-> "_parse_message", outcome |-> "returned", fallback |-> FALSE,
         value |-> [transaction_type |-> class.transaction_type,
                    category |-> class.category,
                    description |-> cut,
                    amount |-> amount]]

_parse_message(message_text) ==
    LET amount_match == re_search(message_text)
        converted == IF amount_match = None THEN [raised |-> FALSE, value |-> <<0, 0>>]
                     ELSE float(RemoveCommas(amount_match[1]))
        amount == IF amount_match = None THEN None ELSE Some(converted.value)
        class == Classify(message_text)
    IN  IF converted.raised
        THEN [op |-> "_parse_message", outcome |-> "returned", fallback |-> TRUE,
              value |-> DefaultParse(message_text)]
        ELSE [op |-> "_parse_message", outcome |-> "returned", fallback |-> FALSE,
              value |-> [transaction_type |-> class.transaction_type,
                         category |-> class.category,
                         description |-> message_text,
                         amount |-> amount]]

----------------------------------------------------------------------------
(* Services/SendLineService.py *)

LineFields ==
    {"transaction_type", "category", "description", "amount",
     "line_user_id", "line_message"}

(* write_line_transaction(lmn, ..., additional_data): fields maps each of the *)
(* six optional parameters to its Optional value.                              *)
LineItem(lmn, fields, additional_data, ts) ==
    LET base == [a \in {"lmn", "created_at", "updated_at", "deleted_at"} \cup LineFields |->
                    CASE a = "lmn" -> Some(lmn)
                      [] a = "created_at" -> Some(ts)
                      [] a = "updated_at" -> Some(ts)
                      [] a = "deleted_at" -> None
                      [] OTHER -> fields[a]]
        merged == IF additional_data # None /\ DOMAIN additional_data[1] # {}
                  THEN DictUpdate(base, additional_data[1])
                  ELSE base
    IN  DropNone(merged)

(* put_item stores the item under the value of its key attribute, which        *)
(* additional_data may have replaced; an item without its key is rejected.     *)
write_line_transaction(tbl, lmn, fields, additional_data, ts, fail) ==
    LET item == LineItem(lmn, fields, additional_data, ts)
    IN  IF fail \/ "lmn" \notin DOMAIN item
        THEN [table |-> tbl,
              result |-> [op |-> "write_line_transaction", outcome |-> "returned",
                          success |-> FALSE, error |-> StorageError,
                          message |-> "Failed to write line transaction"]]
        ELSE [table |-> put_item(tbl, item["lmn"], item),
              result |-> [op |-> "write_line_transaction", outcome |-> "returned",
                          success |-> TRUE, data |-> item,
                          message |-> "Line transaction written successfully"]]

(* f"lmn_{line_user_id}_{current_time.strftime('%Y%m%d_%H%M%S_%f')}" *)
GenerateLmn(line_user_id, n) == <<"lmn", line_user_id, isoformat(n)>>

(* write_from_line_message(line_user_id, line_message, parsed_data): the key is *)
(* generated at instant n, the item is stamped at instant m.  The merged dict   *)
(* is passed as keyword arguments, so a key that is no parameter of             *)
(* write_line_transaction fails the call with TypeError.                        *)
write_from_line_message(tbl, line_user_id, line_message, parsed_data, n, m, fail) ==
    LET lmn == GenerateLmn(line_user_id, n)
        given == [a \in {"line_user_id", "line_message"} |->
                    IF a = "line_user_id" THEN Some(line_user_id) ELSE Some(line_message)]
        write_data == IF parsed_data # None /\ DOMAIN parsed_data[1] # {}
                      THEN DictUpdate(given, parsed_data[1])
                      ELSE given
        fields == [a \in LineFields |->
                      IF a \in DOMAIN write_data THEN write_data[a] ELSE None]
    IN  IF ~(DOMAIN write_data \subseteq LineFields)
        THEN [table |-> tbl,
              result |-> [op |-> "write_line_transaction", outcome |-> "raised",
                          error |-> "TypeError"]]
        ELSE write_line_transaction(tbl, lmn, fields, None, isoformat(m), fail)

(* update_line_transaction(lmn, **kwargs): as update(), on the key lmn. *)
update_line_transaction(tbl, lmn, kwargs, ts, fail) ==
    IF "lmn" \in DOMAIN kwargs
    THEN [table |-> tbl,
          result |-> [op |-> "update_line_transaction", outcome |-> "raised",
                      lmn |-> lmn, error |-> "TypeError"]]
    ELSE IF fail
    THEN [table |-> tbl,
          result |-> [op |-> "update_line_transaction", outcome |-> "returned",
                      lmn |-> lmn, success |-> FALSE, error |-> StorageError]]
    ELSE LET new == update_item(tbl, "lmn", lmn, UpdateSets("lmn", kwargs, ts))
         IN  [table |-> new,
              result |-> [op |-> "update_line_transaction", outcome |-> "returned",
                          lmn |-> lmn, success |-> TRUE, data |-> new[lmn]]]

(* read_line_transaction(lmn) *)
read_line_transaction(tbl, lmn, fail) ==
    LET response == get_item(tbl, lmn)
    IN  IF fail
        THEN [op |-> "read_line_transaction", outcome |-> "returned", lmn |-> lmn,
              success |-> FALSE, error |-> StorageError]
        ELSE IF response # None
        THEN [op |-> "read_line_transaction", outcome |-> "returned", lmn |-> lmn,
              success |-> TRUE, data |-> response[1]]
        ELSE [op |-> "read_line_transaction", outcome |-> "returned", lmn |-> lmn,
              success |-> FALSE, error |-> "Item not found"]

(* The Optional fields _parse_message returns, as keyword arguments. *)
ParsedData(value) ==
    [a \in {"transaction_type", "category", "description", "amount"} |->
        CASE a = "transaction_type" -> Some(value.transaction_type)
          [] a = "category" -> Some(value.category)
          [] a = "description" -> Some(value.description)
          [] a = "amount" -> value.amount]

----------------------------------------------------------------------------
(* SpecQuery: the field queries as functions of the stored records, from any *)
(* table of records that create() wrote with or without a transaction type   *)
(* and a category and that delete() soft-deleted or not.                     *)

Categories == {"food", "salary"}

QueriedItems(pk) ==
    {IF deleted
     THEN DictUpdate(CreateItem(pk, tt, cat, None, None, isoformat(0)),
                     Entry("deleted_at", isoformat(0)))
     ELSE CreateItem(pk, tt, cat, None, None, isoformat(0)) :
        tt \in Opt({INCOME, EXPENSE}), cat \in Opt(Categories), deleted \in BOOLEAN}

QueriedTables ==
    UNION {{t \in [S -> UNION {QueriedItems(k) : k \in S}] :
                \A k \in S : t[k]["pk"] = k} : S \in SUBSET MoneyKeys}

InitQuery ==
    /\ table \in QueriedTables
    /\ line = EmptyTable
    /\ now = 0
    /\ result = NoResult
    /\ text = <<>>
    /\ parsed = NoResult
    /\ request = NoRequest

GetIncomeRecords ==
    \E fail \in BOOLEAN :
        /\ result' = get_income_records(table, fail)
        /\ UNCHANGED <<table, line, now, text, parsed, request>>

GetExpenseRecords ==
    \E fail \in BOOLEAN :
        /\ result' = get_expense_records(table, fail)
        /\ UNCHANGED <<table, line, now, text, parsed, request>>

NextQuery ==
    \/ QueryByTransactionType
    \/ QueryByCategory
    \/ GetIncomeRecords
    \/ GetExpenseRecords

SpecQuery == InitQuery /\ [][NextQuery]_vars

----------------------------------------------------------------------------
(* lambda_function.py: the ingestion handler.  A JSON object is a function from *)
(* its keys; a JSON value that is no object (a string, a number, null) is the   *)
(* function NotADict, on which .get raises AttributeError.                      *)

NotADict == [nondict |-> TRUE]

IsDict(v) == "nondict" \notin DOMAIN v

(* d.get('type') == t *)
TypeIs(d, t) == "type" \in DOMAIN d /\ d["type"] = t

(* body.get('events', []) *)
BodyEvents(body) ==
    IF "events" \in DOMAIN body THEN body["events"].items ELSE <<>>

TextEvent(user, message_text) ==
    [type |-> "message",
     message |-> [type |-> "text", text |-> message_text],
     source |-> [userId |-> user]]

(* The loop body without the test of the message text. *)
EventStep_any_text(event) ==
    IF ~IsDict(event) THEN "raise"
    ELSE IF ~TypeIs(event, "message") THEN "skip"
    ELSE LET message == IF "message" \in DOMAIN event THEN event["message"] ELSE EmptyItem
             source == IF "source" \in DOMAIN event THEN event["source"] ELSE EmptyItem
             user_id == IF "userId" \in DOMAIN source THEN Some(source["userId"]) ELSE None
         IN  IF ~TypeIs(message, "text") THEN "skip"
             ELSE IF user_id = None \/ user_id[1] = "" THEN "skip"
             ELSE "write"

(* What one pass of the loop body of _process_line_messages does with an event: *)
(* "raise" (event.get on a non-object), "skip" (one of the three continue       *)
(* statements) or "write".                                                      *)
EventStep(event) ==
    IF ~IsDict(event) THEN "raise"
    ELSE IF ~TypeIs(event, "message") THEN "skip"
    ELSE LET message == IF "message" \in DOMAIN event THEN event["message"] ELSE EmptyItem
             source == IF "source" \in DOMAIN event THEN event["source"] ELSE EmptyItem
             user_id == IF "userId" \in DOMAIN source THEN Some(source["userId"]) ELSE None
             message_text == IF "text" \in DOMAIN message THEN message["text"] ELSE <<>>
         IN  IF ~TypeIs(message, "text") THEN "skip"
             ELSE IF user_id = None \/ user_id[1] = "" \/ message_text = <<>> THEN "skip"
             ELSE "write"

(* The call of write_from_line_message in the loop body, at instant n. *)
WriteEvent(tbl, event, n, fail) ==
    write_from_line_message(tbl, event["source"]["userId"], event["message"]["text"],
                            Some(ParsedData(_parse_message(event["message"]["text"]).value)),
                            n, n, fail)

(* The loop state after the write w of event i at instant n: the table, the     *)
(* clock, processed_count, and the history of the writes attempted and of the   *)
(* keys written.                                                                *)
AfterWrite(acc, i, n, event, w) ==
    IF w.result.success
    THEN [acc EXCEPT !.table = w.table, !.now = n,
                     !.processed_count = @ + 1,
                     !.attempted = Append(@, i),
                     !.written = Append(@, [event |-> i,
                                            lmn |-> GenerateLmn(event["source"]["userId"], n)])]
    ELSE [acc EXCEPT !.now = n, !.attempted = Append(@, i)]

(* The instant of the write of event i: ticks is the set of events before whose *)
(* write the clock has advanced.                                                *)
WriteInstant(acc, i, ticks) == IF i \in ticks THEN acc.now + 1 ELSE acc.now

(* The for loop of _process_line_messages from event i on; fails is the set of  *)
(* events whose put_item raises.                                                *)
RECURSIVE ProcessLoop(_, _, _, _, _)
(* The loop leaving at the first write that fails. *)
ProcessLoop_abort_on_failure(events, i, acc, fails, ticks) ==
    IF i > Len(events) THEN acc
    ELSE IF EventStep(events[i]) = "raise" THEN [acc EXCEPT !.raised = TRUE]
    ELSE IF EventStep(events[i]) = "skip"
    THEN ProcessLoop(events, i + 1, acc, fails, ticks)
    ELSE IF i \in fails
    THEN AfterWrite(acc, i, WriteInstant(acc, i, ticks), events[i],
                    WriteEvent(acc.table, events[i], WriteInstant(acc, i, ticks), TRUE))
    ELSE ProcessLoop(events, i + 1,
                     AfterWrite(acc, i, WriteInstant(acc, i, ticks), events[i],
                                WriteEvent(acc.table, events[i],
                                           WriteInstant(acc, i, ticks), i \in fails)),
                     fails, ticks)

ProcessLoop(events, i, acc, fails, ticks) ==
    IF i > Len(events) THEN acc
    ELSE IF EventStep(events[i]) = "raise" THEN [acc EXCEPT !.raised = TRUE]
    ELSE IF EventStep(events[i]) = "skip"
    THEN ProcessLoop(events, i + 1, acc, fails, ticks)
    ELSE ProcessLoop(events, i + 1,
                     AfterWrite(acc, i, WriteInstant(acc, i, ticks), events[i],
                                WriteEvent(acc.table, events[i],
                                           WriteInstant(acc, i, ticks), i \in fails)),
                     fails, ticks)

(* The result with the exception of the loop swallowed. *)
ProcessResult_swallowing(acc) ==
    [table |-> acc.table, now |-> acc.now,
     attempted |-> acc.attempted, written |-> acc.written,
     result |-> [success |-> TRUE, processed_count |-> acc.processed_count]]

(* The result of _process_line_messages for the final loop state: an exception  *)
(* anywhere in the loop is caught and becomes a failure result.                 *)
ProcessResult(acc) ==
    [table |-> acc.table, now |-> acc.now,
     attempted |-> acc.attempted, written |-> acc.written,
     result |-> IF acc.raised
                THEN [success |-> FALSE, error |-> "AttributeError"]
                ELSE [success |-> TRUE, processed_count |-> acc.processed_count]]

(* _process_line_messages(body): body.get('events', []) is iterated; what was   *)
(* written before an exception stays written.                                   *)
_process_line_messages(tbl, body, n, fails, ticks) ==
    ProcessResult(
        ProcessLoop(BodyEvents(body), 1,
                    [table |-> tbl, now |-> n, processed_count |-> 0,
                     attempted |-> <<>>, written |-> <<>>, raised |-> FALSE],
                    fails, ticks))

(* _is_valid_line_webhook() without the test for the message field. *)
_is_valid_line_webhook_any_message_event(body) ==
    IF "events" \notin DOMAIN body THEN FALSE
    ELSE LET events == body["events"]
         IN  IF ~events.is_list \/ Len(events.items) = 0 THEN FALSE
             ELSE LET first_event == events.items[1]
                  IN  IF ~IsDict(first_event) THEN FALSE
                      ELSE IF ~TypeIs(first_event, "message") THEN FALSE
                      ELSE TRUE

(* _is_valid_line_webhook(body): the value of body['events'] is a record        *)
(* [is_list, items]; an exception in the check makes the payload invalid.       *)
_is_valid_line_webhook(body) ==
    IF "events" \notin DOMAIN body THEN FALSE
    ELSE LET events == body["events"]
         IN  IF ~events.is_list \/ Len(events.items) = 0 THEN FALSE
             ELSE LET first_event == events.items[1]
                  IN  IF ~IsDict(first_event) THEN FALSE
                      ELSE IF ~TypeIs(first_event, "message") THEN FALSE
                      ELSE IF "message" \notin DOMAIN first_event THEN FALSE
                      ELSE TRUE


(* handleLineForMoney(event, context).  request.wrapper tells how the payload   *)
(* arrives: "str" (event['body'] is a JSON string), "dict" (event['body'] is an *)
(* object), "absent" (the event itself is the payload) or "malformed"           *)
(* (event['body'] is a string json.loads rejects).  The response carries the    *)
(* status code and the decoded body, and for the properties the history of the  *)
(* invocation: the events, the events whose put_item raised, the writes         *)
(* attempted and the keys written.                                              *)
HandlerResponse(p, events, fails) ==
    [table |-> p.table, now |-> p.now,
     result |->
        [op |-> "handleLineForMoney",
         statusCode |-> IF p.result.success THEN 200 ELSE 500,
         body |-> IF p.result.success
                  THEN [message |-> "Messages processed successfully",
                        processed_count |-> p.result.processed_count]
                  ELSE [error |-> "Failed to process messages",
                        details |-> p.result.error],
         events |-> events, failed |-> fails,
         attempted |-> p.attempted, written |-> p.written]]

handleLineForMoney(tbl, req, n, fails, ticks) ==
    IF req.wrapper = "malformed"
    THEN [table |-> tbl, now |-> n,
          result |-> [op |-> "handleLineForMoney", statusCode |-> 500,
                      body |-> [error |-> "Internal server error",
                                details |-> "JSONDecodeError"],
                      events |-> <<>>, failed |-> {},
                      attempted |-> <<>>, written |-> <<>>]]
    ELSE IF ~_is_valid_line_webhook(req.body)
    THEN [table |-> tbl, now |-> n,
          result |-> [op |-> "handleLineForMoney", statusCode |-> 400,
                      body |-> [error |-> "Invalid LINE webhook data"],
                      events |-> BodyEvents(req.body), failed |-> {},
                      attempted |-> <<>>, written |-> <<>>]]
    ELSE HandlerResponse(_process_line_messages(tbl, req.body, n, fails, ticks),
                         BodyEvents(req.body), fails)

----------------------------------------------------------------------------
(* SpecLine: one delivery of a webhook payload to the handler, on a table that  *)
(* is empty or holds a record ingested earlier.                                 *)

LunchText == <<"chuu", "shoku", " ", "8", "5", "0", "en">>

SalaryText == <<"kyuu", "yo">>

EventKinds ==
    {TextEvent("U1", LunchText),
     TextEvent("U1", SalaryText),
     TextEvent("U1", <<>>),
     [type |-> "message", message |-> [type |-> "text", text |-> LunchText],
      source |-> EmptyItem],
     [type |-> "message", message |-> [type |-> "image"], source |-> [userId |-> "U1"]],
     [type |-> "message", source |-> [userId |-> "U1"]],
     [type |-> "follow", source |-> [userId |-> "U1"]],
     NotADict}

Batches == UNION {[1..k -> EventKinds] : k \in 0..MaxEvents}

Bodies ==
    {EmptyItem, Entry("events", [is_list |-> FALSE, items |-> <<>>])}
    \cup {Entry("events", [is_list |-> TRUE, items |-> b]) : b \in Batches}

Requests ==
    {[wrapper |-> "malformed", body |-> EmptyItem]}
    \cup {[wrapper |-> w, body |-> b] : w \in {"str", "dict", "absent"}, b \in Bodies}

EarlierTables ==
    {EmptyTable,
     write_from_line_message(EmptyTable, "U1", SalaryText,
                             Some(ParsedData(_parse_message(SalaryText).value)),
                             0, 0, FALSE).table}

InitLine ==
    /\ table = EmptyTable
    /\ line \in EarlierTables
    /\ now = 0
    /\ result = NoResult
    /\ text = <<>>
    /\ parsed = NoResult
    /\ request \in Requests

(* The events of a payload on which the loop calls write_from_line_message. *)
WriteIndices(req) ==
    IF req.wrapper = "malformed" \/ "events" \notin DOMAIN req.body THEN {}
    ELSE {i \in 1..Len(req.body["events"].items) :
            EventStep(req.body["events"].items[i]) = "write"}

HandleLineForMoney ==
    /\ request # NoRequest
    /\ \E fails \in SUBSET WriteIndices(request), ticks \in SUBSET WriteIndices(request) :
          LET r == handleLineForMoney(line, request, now, fails, ticks)
          IN  /\ line' = r.table
              /\ now' = r.now
              /\ result' = r.result
    /\ request' = NoRequest
    /\ UNCHANGED <<table, text, parsed>>

NextLine == HandleLineForMoney

SpecLine == InitLine /\ [][NextLine]_vars

----------------------------------------------------------------------------
(* SpecService: the operations of SendLineService called directly on the line   *)
(* transaction table.                                                           *)

Users == {"U1"}

LineKeys == {"l1", "l2"}

InitService ==
    /\ table = EmptyTable
    /\ line = EmptyTable
    /\ now = 0
    /\ result = NoResult
    /\ text = <<>>
    /\ parsed = NoResult
    /\ request = NoRequest

WriteLineTransaction ==
    \E lmn \in LineKeys, user \in Opt(Users),
       additional_data \in {None} \cup {Some(e) : e \in KwChoice("lmn", LineKeys)},
       fail \in BOOLEAN :
        LET fields == [a \in LineFields |-> IF a = "line_user_id" THEN user ELSE None]
            r == write_line_transaction(line, lmn, fields, additional_data,
                                        _get_current_timestamp, fail)
        IN  /\ line' = r.table
            /\ result' = r.result
            /\ UNCHANGED <<table, now, text, parsed, request>>

UpdateLineTransaction ==
    \E lmn \in LineKeys, klmn \in KwChoice("lmn", LineKeys),
       kcat \in KwChoice("category", {"food"}), fail \in BOOLEAN :
        LET r == update_line_transaction(line, lmn, klmn @@ kcat,
                                         _get_current_timestamp, fail)
        IN  /\ line' = r.table
            /\ result' = r.result
            /\ UNCHANGED <<table, now, text, parsed, request>>

ReadLineTransaction ==
    \E lmn \in LineKeys, fail \in BOOLEAN :
        /\ result' = read_line_transaction(line, lmn, fail)
        /\ UNCHANGED <<table, line, now, text, parsed, request>>

NextService ==
    \/ Tick
    \/ WriteLineTransaction
    \/ UpdateLineTransaction
    \/ ReadLineTransaction

SpecService == InitService /\ [][NextService]_vars

----------------------------------------------------------------------------
(* The parser as a function of the text: SpecParseKeywords and SpecParseNumbers *)
(* start from any text over a set of characters, parse it, and write the        *)
(* parsed message the way _process_line_messages does.                          *)

Texts(chars, n) == UNION {[1..k -> chars] : k \in 0..n}

(* Characters that spell keywords of every group, several of them overlapping. *)
KeywordChars ==
    {"kyuu", "yo", "nyuu", "kin", "shoku", "hi", "ba", "su", "ga",
     "ya", "chin", "kusuri", "hon", "fuku"}

NumberChars == {"1", "2", ",", ".", "en"}

InitText(texts) ==
    /\ table = EmptyTable
    /\ line = EmptyTable
    /\ now = 0
    /\ result = NoResult
    /\ text \in texts
    /\ parsed = NoResult
    /\ request = NoRequest

InitParseKeywords == InitText(Texts(KeywordChars, MaxKeywordText))

InitParseNumbers == InitText(Texts(NumberChars, MaxNumberText))

ParseMessage ==
    /\ parsed' = _parse_message(text)
    /\ UNCHANGED <<table, line, now, result, text, request>>

WriteParsed ==
    /\ parsed.op = "_parse_message"
    /\ \E user \in Users, fail \in BOOLEAN :
          LET r == write_from_line_message(line, user, text,
                                           Some(ParsedData(parsed.value)), now, now, fail)
          IN  /\ line' = r.table
              /\ result' = r.result
    /\ UNCHANGED <<table, now, text, parsed, request>>

NextParse ==
    \/ ParseMessage
    \/ WriteParsed

SpecParseKeywords == InitParseKeywords /\ [][ParseMessage]_vars

SpecParseNumbers == InitParseNumbers /\ [][NextParse]_vars

----------------------------------------------------------------------------
(* Properties of the record store, checked under Spec *)

(* C1: after a successful soft delete of a key, list_all(include_deleted=False) *)
(* does not return the record and list_all(include_deleted=True) returns it     *)
(* with a deleted_at attribute; and every successful list_all result treats     *)
(* each stored record that has deleted_at in that way.                          *)
C1_SoftDeleteFilter ==
    /\ (result.op = "delete" /\ result.success /\ result.soft_delete) =>
          LET pk == result.pk
              active == list_all_items(table, FALSE)
              all == list_all_items(table, TRUE)
          IN  /\ pk \notin DOMAIN active
              /\ pk \in DOMAIN all
              /\ all[pk]["pk"] = pk
              /\ "deleted_at" \in DOMAIN all[pk]
    /\ (result.op = "list_all" /\ result.success) =>
          /\ result.count = Cardinality(DOMAIN result.data)
          /\ \A k \in DOMAIN table :
                "deleted_at" \in DOMAIN table[k] =>
                    IF result.include_deleted
                    THEN k \in DOMAIN result.data /\ result.data[k] = table[k]
                    ELSE k \notin DOMAIN result.data

(* A record that was created is soft-deleted while another record stays active. *)
C1_Witness ==
    /\ result.op = "delete" /\ result.success /\ result.soft_delete
    /\ "created_at" \in DOMAIN result.data
    /\ \E k \in DOMAIN table : k # result.pk /\ "deleted_at" \notin DOMAIN table[k]

(* C5: an update(key, fields) call, whether or not the fields name the primary *)
(* key, leaves the primary key stored in the record equal to key, removes no    *)
(* record, and creates or changes no record under another key.                  *)
C5_UpdateKeepsPrimaryKey ==
    [][result'.op = "update" =>
          LET pk == result'.pk
          IN  /\ \A k \in (DOMAIN table \cup DOMAIN table') \ {pk} :
                    k \in DOMAIN table /\ k \in DOMAIN table' /\ table'[k] = table[k]
              /\ pk \in DOMAIN table => pk \in DOMAIN table'
              /\ pk \in DOMAIN table' => table'[pk]["pk"] = pk]_vars

(* update() was called on a stored record with another stored key among the fields. *)
C5_Witness ==
    /\ result.op = "update" /\ result.outcome = "raised"
    /\ result.pk \in DOMAIN table
    /\ \E k \in DOMAIN table : k # result.pk

(* C6 as stated: reading a key that is not stored returns a not-found failure. *)
C6_ReadAbsentIsNotFound ==
    (result.op = "read" /\ result.pk \notin DOMAIN table) =>
        /\ result.outcome = "returned"
        /\ ~result.success
        /\ result.error = "Item not found"

(* C6 as amended: reading a key that is not stored returns, without raising, a  *)
(* failure result whose error is not-found or, when the storage call raised,    *)
(* the storage error; and the read leaves the store unchanged.                  *)
C6_ReadAbsentFails ==
    [][(result'.op = "read" /\ result'.pk \notin DOMAIN table) =>
          /\ table' = table
          /\ result'.outcome = "returned"
          /\ ~result'.success
          /\ result'.error \in {"Item not found", StorageError}]_vars

(* A key that was hard-deleted is read and reported as not found. *)
C6_Witness ==
    /\ result.op = "read" /\ result.pk \notin DOMAIN table
    /\ result.error = "Item not found"
    /\ table # EmptyTable

(* The same two properties of update_line_transaction and read_line_transaction, *)
(* checked under SpecService.                                                    *)
UpdateLineKeepsPrimaryKey ==
    [][result'.op = "update_line_transaction" =>
          LET lmn == result'.lmn
          IN  /\ \A k \in (DOMAIN line \cup DOMAIN line') \ {lmn} :
                    k \in DOMAIN line /\ k \in DOMAIN line' /\ line'[k] = line[k]
              /\ lmn \in DOMAIN line => lmn \in DOMAIN line'
              /\ lmn \in DOMAIN line' => line'[lmn]["lmn"] = lmn]_vars

ReadLineAbsentFails ==
    [][(result'.op = "read_line_transaction" /\ result'.lmn \notin DOMAIN line) =>
          /\ line' = line
          /\ result'.outcome = "returned"
          /\ ~result'.success
          /\ result'.error \in {"Item not found", StorageError}]_vars

----------------------------------------------------------------------------
(* Properties of the aggregations, checked under SpecMoney *)

Active(tbl) == {k \in DOMAIN tbl : "deleted_at" \notin DOMAIN tbl[k]}

(* The half-open month [first instant of the month, first instant of the next). *)
InMonth(ts, year, month) ==
    LET next == IF month = 12 THEN <<year + 1, 1, 0>> ELSE <<year, month + 1, 0>>
    IN  /\ StrLE(<<year, month, 0>>, ts)
        /\ StrLE(ts, next)
        /\ ts # next

(* C2: get_monthly_summary(year, month) counts exactly the active records whose *)
(* created_at lies in the half-open interval from the first instant of the      *)
(* month to the first instant of the next month (January of year+1 after        *)
(* December).                                                                   *)
C2_HalfOpenMonth ==
    (result.op = "get_monthly_summary" /\ result.outcome = "returned" /\ result.success) =>
        result.total_records =
            Cardinality({k \in Active(table) :
                            InMonth(table[k]["created_at"], result.year, result.month)})

(* The sum of the amounts of the records S of tbl, one amount value at a time. *)
RECURSIVE SumByValue(_, _, _)
SumByValue(tbl, S, values) ==
    IF values = {} THEN 0
    ELSE LET v == CHOOSE x \in values : TRUE
         IN  v * Cardinality({k \in S : "amount" \in DOMAIN tbl[k] /\ tbl[k]["amount"] = v})
             + SumByValue(tbl, S, values \ {v})

(* The active records a type filter selects; None and "" select all of them. *)
Matched(tbl, filter) ==
    IF filter = None \/ filter = Some("")
    THEN Active(tbl)
    ELSE {k \in Active(tbl) : /\ "transaction_type" \in DOMAIN tbl[k]
                              /\ tbl[k]["transaction_type"] = filter[1]}

(* C3: get_total_amount returns the sum of amount over the matched records that *)
(* have one and the number of all matched records, with or without an amount;   *)
(* without a type filter the matched records are the active records.            *)
C3_AmountAggregation ==
    (result.op = "get_total_amount" /\ result.success) =>
        LET matched == Matched(table, result.transaction_type)
        IN  /\ result.record_count = Cardinality(matched)
            /\ result.total_amount = SumByValue(table, matched, Amounts)

(* Two active records, one with amount 100 and one without: total 100, count 2, *)
(* while a soft-deleted record with an amount is in the table.                  *)
C3_Witness ==
    /\ result.op = "get_total_amount" /\ result.success
    /\ result.transaction_type = None
    /\ result.record_count = 2 /\ result.total_amount = 100
    /\ \E k \in Active(table) : "amount" \notin DOMAIN table[k]

----------------------------------------------------------------------------
(* Properties of the parser *)

ParsedFields == {"transaction_type", "category", "description", "amount"}

(* C7: _parse_message returns, for every text and also for the empty one, a    *)
(* result with exactly the fields transaction_type, category, description and   *)
(* amount, whose description is the text; a result produced by the except       *)
(* branch is (expense, "other", text, no amount).                               *)
C7_ParserTotal ==
    parsed.op = "_parse_message" =>
        /\ parsed.outcome = "returned"
        /\ DOMAIN parsed.value = ParsedFields
        /\ parsed.value.description = text
        /\ parsed.value.transaction_type \in {INCOME, EXPENSE}
        /\ parsed.fallback =>
              /\ parsed.value.transaction_type = EXPENSE
              /\ parsed.value.category = "other"
              /\ parsed.value.amount = None

(* A text that holds a number and more text after it has been parsed. *)
C7_Witness ==
    /\ parsed.op = "_parse_message"
    /\ text = <<"en", "1", ",", "2", "en">>

(* w occurs in s *)
Occurs(s, w) ==
    /\ Len(w) > 0
    /\ \E i \in 0..Len(s) :
          /\ i + Len(w) <= Len(s)
          /\ \A j \in 1..Len(w) : s[i + j] = w[j]

OccursAny(s, words) == \E w \in words : Occurs(s, w)

(* C8: a text is classified as income iff it contains an income keyword, and    *)
(* as expense otherwise; an income text has category "salary" when it contains  *)
(* a salary or bonus keyword and "income" otherwise, whatever expense keywords  *)
(* it contains.                                                                 *)
C8_TypeClassification ==
    parsed.op = "_parse_message" =>
        LET income == OccursAny(text, income_keywords)
        IN  /\ parsed.value.transaction_type = (IF income THEN INCOME ELSE EXPENSE)
            /\ income =>
                  parsed.value.category =
                      (IF OccursAny(text, salary_keywords) THEN "salary" ELSE "income")

(* An income text that also contains a food keyword. *)
C8_Witness ==
    /\ parsed.op = "_parse_message"
    /\ text = <<"shoku", "hi", "nyuu", "kin">>
    /\ parsed.value.category = "income"

ExpenseGroups ==
    <<[category |-> "food", keywords |-> food_keywords],
      [category |-> "transport", keywords |-> transport_keywords],
      [category |-> "housing", keywords |-> housing_keywords],
      [category |-> "utilities", keywords |-> utilities_keywords],
      [category |-> "medical", keywords |-> medical_keywords],
      [category |-> "entertainment", keywords |-> entertainment_keywords],
      [category |-> "shopping", keywords |-> shopping_keywords]>>

MatchingGroups(s) ==
    {g \in 1..Len(ExpenseGroups) : OccursAny(s, ExpenseGroups[g].keywords)}

(* C9: the category of an expense text is that of the first group, in the order *)
(* food, transport, housing, utilities, medical, entertainment, shopping, one   *)
(* of whose keywords it contains, and "other" when it contains none.            *)
C9_ExpensePriority ==
    (parsed.op = "_parse_message" /\ parsed.value.transaction_type = EXPENSE) =>
        LET matching == MatchingGroups(text)
        IN  IF matching = {}
            THEN parsed.value.category = "other"
            ELSE \E g \in matching :
                    /\ \A h \in matching : g <= h
                    /\ parsed.value.category = ExpenseGroups[g].category

(* A text with a utilities keyword before a transport keyword is transport. *)
C9_Witness ==
    /\ parsed.op = "_parse_message"
    /\ text = <<"ga", "su", "ba", "su">>
    /\ parsed.value.category = "transport"

(* s is a number: digits, then groups of "," and three digits, then optionally *)
(* "." and digits.                                                             *)
IsNumber(s) ==
    \E d \in 1..Len(s), g \in 0..Len(s) :
        LET rest == d + 4 * g
        IN  /\ rest <= Len(s)
            /\ \A j \in 1..d : IsDigit(s[j])
            /\ \A q \in 0..(g - 1) :
                  /\ s[d + 4 * q + 1] = ","
                  /\ \A j \in 2..4 : IsDigit(s[d + 4 * q + j])
            /\ \/ rest = Len(s)
               \/ /\ rest + 2 <= Len(s)
                  /\ s[rest + 1] = "."
                  /\ \A j \in (rest + 2)..Len(s) : IsDigit(s[j])

RECURSIVE SumOver(_, _)
SumOver(S, f) ==
    IF S = {} THEN 0
    ELSE LET x == CHOOSE y \in S : TRUE IN f[x] + SumOver(S \ {x}, f)

(* The value of the number s without its separators: each digit weighs by its  *)
(* place, before the "." in units and after it in units of 10^-FloatScale.      *)
NumberValue(s) ==
    LET dots == {j \in 1..Len(s) : s[j] = "."}
        dot == IF dots = {} THEN Len(s) + 1 ELSE CHOOSE j \in dots : TRUE
        digits == {j \in 1..Len(s) : IsDigit(s[j])}
        place == [j \in digits |->
                    IF j < dot
                    THEN Cardinality({k \in digits : j < k /\ k < dot})
                    ELSE FloatScale - (j - dot)]
    IN  <<SumOver({j \in digits : j < dot},
                  [j \in digits |-> DigitValue(s[j]) * Pow10(place[j])]),
          SumOver({j \in digits : j > dot},
                  [j \in digits |-> DigitValue(s[j]) * Pow10(place[j])])>>

(* The first number of the text: it starts at the first digit and is the       *)
(* longest number that starts there.                                            *)
FirstNumber(s) ==
    IF \A i \in 1..Len(s) : ~IsDigit(s[i])
    THEN None
    ELSE LET first == CHOOSE i \in 1..Len(s) :
                          IsDigit(s[i]) /\ \A j \in 1..(i - 1) : ~IsDigit(s[j])
             ends == {e \in first..Len(s) : IsNumber(SubSeq(s, first, e))}
             last == CHOOSE e \in ends : \A f \in ends : f <= e
         IN  Some(SubSeq(s, first, last))

(* C10: the parsed amount is the value of the first number of the text, and is *)
(* absent when the text has no number; the record written for the parsed text  *)
(* has an amount attribute, with that value, iff the text has a number.        *)
C10_NumericExtraction ==
    /\ parsed.op = "_parse_message" =>
          parsed.value.amount =
              (IF FirstNumber(text) = None THEN None
               ELSE Some(NumberValue(FirstNumber(text)[1])))
    /\ (result.op = "write_line_transaction" /\ result.success) =>
          /\ "amount" \in DOMAIN result.data <=> FirstNumber(text) # None
          /\ "amount" \in DOMAIN result.data =>
                result.data["amount"] = NumberValue(FirstNumber(text)[1])
          /\ line[result.data["lmn"]] = result.data

(* The record written for a text with a grouped number and a digit after it. *)
C10_Witness ==
    /\ result.op = "write_line_transaction" /\ result.success
    /\ text = <<"2", ",", "1", "1", "2", "2">>
    /\ result.data["amount"] = <<2112, 0>>

----------------------------------------------------------------------------
(* C4: batch isolation.  For a batch in which every event is an eligible text   *)
(* message, whatever subset of the writes fails, the handler answers 200, has   *)
(* attempted the write of every event in order, reports as processed_count the  *)
(* number of events whose write did not fail, and each such event has a key in  *)
(* the table, holding its message unless a later event of the batch wrote the   *)
(* same key.                                                                    *)

AllEligible(events) ==
    /\ Len(events) > 0
    /\ \A i \in 1..Len(events) : EventStep(events[i]) = "write"

LastWriter(written, k) ==
    \A j \in (k + 1)..Len(written) : written[j].lmn # written[k].lmn

C4_BatchIsolation ==
    (result.op = "handleLineForMoney" /\ AllEligible(result.events)) =>
        /\ result.statusCode = 200
        /\ result.attempted = [i \in 1..Len(result.events) |-> i]
        /\ result.body.processed_count
              = Len(result.events) - Cardinality(result.failed)
        /\ \A i \in 1..Len(result.events) :
              i \notin result.failed =>
                 \E k \in 1..Len(result.written) :
                    /\ result.written[k].event = i
                    /\ result.written[k].lmn \in DOMAIN line
                    /\ LastWriter(result.written, k) =>
                          line[result.written[k].lmn]["line_message"]
                             = result.events[i]["message"]["text"]

(* Three eligible events, the write of the second fails: two are counted and *)
(* the third is in the table.                                                *)
C4_Witness ==
    /\ result.op = "handleLineForMoney"
    /\ Len(result.events) = 3 /\ AllEligible(result.events)
    /\ result.failed = {2}
    /\ result.body.processed_count = 2
    /\ \E k \in 1..Len(result.written) :
          /\ result.written[k].event = 3
          /\ line[result.written[k].lmn]["line_message"] = result.events[3]["message"]["text"]

----------------------------------------------------------------------------
(* Properties of the timestamps and of the life of a record, checked under Spec *)

(* A step that is a call of create, update or delete (the clock stands still *)
(* during a call) and returned success.                                      *)
Mutated ==
    /\ now' = now
    /\ result'.op \in {"create", "update", "delete"}
    /\ result'.outcome = "returned"
    /\ result'.success

(* C11: every successful create, update and soft delete of a record sets the  *)
(* record's updated_at to the time of the operation.                          *)
C11_UpdatedAtRefreshed ==
    [][(Mutated /\ (result'.op = "delete" => result'.soft_delete)) =>
          /\ result'.pk \in DOMAIN table'
          /\ "updated_at" \in DOMAIN table'[result'.pk]
          /\ table'[result'.pk]["updated_at"] = _get_current_timestamp]_vars

(* C12: while a record stays in the store, no call of create, update or delete *)
(* on its key changes its created_at.                                          *)
C12_CreatedAtSetOnce ==
    [][(/\ now' = now
        /\ result'.op \in {"create", "update", "delete"}
        /\ result'.pk \in DOMAIN table
        /\ "created_at" \in DOMAIN table[result'.pk]
        /\ result'.pk \in DOMAIN table') =>
          /\ "created_at" \in DOMAIN table'[result'.pk]
          /\ table'[result'.pk]["created_at"] = table[result'.pk]["created_at"]]_vars

----------------------------------------------------------------------------
(* Properties of the calls on the record store, checked under SpecCalls *)

StoreOps ==
    {"create", "read", "update", "delete", "list_all",
     "query_by_transaction_type", "query_by_category"}

(* C13: a call of create, read, update, delete, list_all or a query in which   *)
(* the storage call raised returns (it does not raise) a result with success   *)
(* false and the stringified error, and leaves the contents of the store as    *)
(* they were.                                                                  *)
C13_ErrorBoundary ==
    [][(/\ result'.op \in StoreOps
        /\ "error" \in DOMAIN result'
        /\ result'.error = StorageError) =>
          /\ result'.outcome = "returned"
          /\ "success" \in DOMAIN result' /\ ~result'.success
          /\ table' = table]_vars

(* A soft delete of a stored record failed in storage. *)
C13_Witness ==
    /\ result.op = "delete" /\ result.soft_delete
    /\ ~result.success /\ result.error = StorageError
    /\ result.pk \in DOMAIN table
    /\ "deleted_at" \notin DOMAIN table[result.pk]

----------------------------------------------------------------------------
(* Properties of the ingestion handler, checked under SpecLine *)

(* The shape a payload must have: events is a non-empty list whose first *)
(* element is a message event with a message field.                      *)
ShapeOK(body) ==
    /\ "events" \in DOMAIN body
    /\ body["events"].is_list
    /\ body["events"].items # <<>>
    /\ LET first == Head(body["events"].items)
       IN  IsDict(first) /\ TypeIs(first, "message") /\ "message" \in DOMAIN first

C15_GeneratedKeysUnique ==
    [][(request # NoRequest /\ result'.op = "handleLineForMoney") =>
          LET written == result'.written
          IN  /\ \A j, k \in 1..Len(written) : j # k => written[j].lmn # written[k].lmn
              /\ \A k \in 1..Len(written) : written[k].lmn \notin DOMAIN line
              /\ Cardinality(DOMAIN line') = Cardinality(DOMAIN line) + Len(written)]_vars

----------------------------------------------------------------------------
(* Further properties of the life of a record, checked under Spec *)

(* C16: a deleted_at attribute appears on a record only by a delete of that   *)
(* record, and once a record has it no call changes its value.                *)
C16_DeletedAtWriteOnce ==
    [][\A k \in DOMAIN table' :
          "deleted_at" \in DOMAIN table'[k] =>
             IF k \in DOMAIN table /\ "deleted_at" \in DOMAIN table[k]
             THEN table'[k]["deleted_at"] = table[k]["deleted_at"]
             ELSE result'.op = "delete" /\ result'.pk = k]_vars

(* C17: update and soft delete of a key that is not stored add no record, and *)
(* every stored record has created_at and updated_at.                         *)
C17_OnlyCreateAddsRecords ==
    [][/\ (now' = now /\ result'.op \in {"update", "delete"}) =>
             DOMAIN table' \subseteq DOMAIN table
       /\ \A k \in DOMAIN table' :
             {"created_at", "updated_at"} \subseteq DOMAIN table'[k]]_vars

----------------------------------------------------------------------------
(* Properties of update, checked under SpecUpdate *)

(* C18 as stated: after a successful update(key, fields) every supplied field  *)
(* other than the primary key holds the supplied value, updated_at is the time *)
(* of the call, every attribute that was not supplied keeps its value, and the *)
(* returned data is the stored item.                                           *)
C18_PartialUpdate ==
    [][(/\ now' = now
        /\ result'.op = "update" /\ result'.outcome = "returned" /\ result'.success) =>
          LET pk == result'.pk
              supplied == DOMAIN result'.kwargs \ {"pk"}
              old == IF pk \in DOMAIN table THEN table[pk] ELSE Entry("pk", pk)
              new == table'[pk]
          IN  /\ \A a \in supplied :
                    IF result'.kwargs[a] = None THEN a \notin DOMAIN new
                    ELSE a \in DOMAIN new /\ new[a] = result'.kwargs[a][1]
              /\ new["updated_at"] = _get_current_timestamp
              /\ \A a \in DOMAIN old \ (supplied \cup {"updated_at"}) :
                    a \in DOMAIN new /\ new[a] = old[a]
              /\ DOMAIN new \subseteq DOMAIN old \cup supplied \cup {"updated_at"}
              /\ result'.data = new]_vars

(* C18 as amended: the same, for the supplied fields whose value is not None; *)
(* a field supplied as None is treated as not supplied and keeps its value.   *)
C18_PartialUpdateOfValues ==
    [][(/\ now' = now
        /\ result'.op = "update" /\ result'.outcome = "returned" /\ result'.success) =>
          LET pk == result'.pk
              supplied == {a \in DOMAIN result'.kwargs \ {"pk"} : result'.kwargs[a] # None}
              old == IF pk \in DOMAIN table THEN table[pk] ELSE Entry("pk", pk)
              new == table'[pk]
          IN  /\ \A a \in supplied : a \in DOMAIN new /\ new[a] = result'.kwargs[a][1]
              /\ new["updated_at"] = _get_current_timestamp
              /\ \A a \in DOMAIN old \ (supplied \cup {"updated_at"}) :
                    a \in DOMAIN new /\ new[a] = old[a]
              /\ DOMAIN new \subseteq DOMAIN old \cup supplied \cup {"updated_at"}
              /\ result'.data = new]_vars

(* A record created earlier with a transaction type was given a category, and *)
(* the call passed None for the transaction type.                             *)
C18_Witness ==
    /\ result.op = "update" /\ result.outcome = "returned" /\ result.success
    /\ result.kwargs = Entry("transaction_type", None) @@ Entry("category", Some("food"))
    /\ {"transaction_type", "created_at"} \subseteq DOMAIN result.data
    /\ result.data["category"] = "food"
    /\ result.data["transaction_type"] = INCOME
    /\ result.data["created_at"] # result.data["updated_at"]

----------------------------------------------------------------------------
(* Properties of the stored items, checked under Spec *)

(* A stored attribute value that is null: None itself, whatever the type of *)
(* the values the attribute otherwise has.                                  *)
IsNull(v) == ToString(v) = ToString(None)

NoNullIn(tbl) ==
    \A k \in DOMAIN tbl : \A a \in DOMAIN tbl[k] : ~IsNull(tbl[k][a])

----------------------------------------------------------------------------
(* Properties of the field queries, checked under SpecQuery *)

(* The keys of the records of tbl that are active and whose field has the value. *)
ActiveWith(tbl, field, value) ==
    {k \in DOMAIN tbl : /\ field \in DOMAIN tbl[k]
                        /\ tbl[k][field] = value
                        /\ "deleted_at" \notin DOMAIN tbl[k]}

QueriedField(op) ==
    IF op = "query_by_transaction_type" THEN "transaction_type" ELSE "category"

(* C20: a successful query_by_transaction_type(v) or query_by_category(v),    *)
(* get_income_records and get_expense_records being the former with v income  *)
(* and expense, returns exactly the stored records whose field is v and that  *)
(* have no deleted_at.                                                        *)
C20_FieldQueries ==
    (/\ result.op \in {"query_by_transaction_type", "query_by_category"}
     /\ result.success) =>
        LET hits == ActiveWith(table, QueriedField(result.op), result.value)
        IN  /\ DOMAIN result.data = hits
            /\ \A k \in hits : result.data[k] = table[k]
            /\ result.count = Cardinality(hits)

(* get_expense_records on a table with an active and a soft-deleted expense *)
(* record returned the active one.                                          *)
C20_Witness ==
    /\ result.op = "query_by_transaction_type" /\ result.success
    /\ result.value = EXPENSE
    /\ result.count = 1
    /\ \E k \in DOMAIN table :
          /\ "deleted_at" \in DOMAIN table[k]
          /\ "transaction_type" \in DOMAIN table[k]
          /\ table[k]["transaction_type"] = EXPENSE

----------------------------------------------------------------------------
(* Properties of the hard delete, checked under Spec *)

(* The last call was a successful delete(pk, soft_delete=False). *)
HardDeleted(r) ==
    /\ r.op = "delete"
    /\ r.success
    /\ ~r.soft_delete

(* The step of a successful hard delete removes the record of its key, leaves *)
(* the records under the other keys as they were and returns the key; a read  *)
(* or a list_all that follows it does not return the record.                  *)
HardDeleteRemoves ==
    [][/\ HardDeleted(result') =>
            /\ result'.pk \notin DOMAIN table'
            /\ DOMAIN table' \ {result'.pk} = DOMAIN table \ {result'.pk}
            /\ \A k \in DOMAIN table' : table'[k] = table[k]
            /\ result'.data = Entry("pk", result'.pk)
       /\ (HardDeleted(result) /\ result'.op = "read" /\ result'.pk = result.pk) =>
            ~result'.success
       /\ (HardDeleted(result) /\ result'.op = "list_all" /\ result'.success) =>
            result.pk \notin DOMAIN result'.data]_vars

(* C21: after a successful delete(key, soft_delete=False) the record is gone: *)
(* the records under the other keys are unchanged, the result data is the key, *)
(* read(key) is not-found and list_all does not return the key, and the key    *)
(* stays out of the store until a create with the same key.                    *)
C21_HardDelete ==
    [][/\ HardDeleted(result') =>
            /\ result'.pk \notin DOMAIN table'
            /\ DOMAIN table' \ {result'.pk} = DOMAIN table \ {result'.pk}
            /\ \A k \in DOMAIN table' : table'[k] = table[k]
            /\ result'.data = Entry("pk", result'.pk)
       /\ (HardDeleted(result) /\ result'.op = "read" /\ result'.pk = result.pk) =>
            ~result'.success
       /\ (HardDeleted(result) /\ result'.op = "list_all" /\ result'.success) =>
            result.pk \notin DOMAIN result'.data
       /\ (HardDeleted(result)
           /\ ~(result'.op = "create" /\ result'.pk = result.pk)) =>
            result.pk \notin DOMAIN table']_vars

----------------------------------------------------------------------------
(* Properties of the events the handler writes, checked under SpecLine *)

(* A message event of type text with a non-empty user id and a non-empty text. *)
Eligible(event) ==
    /\ IsDict(event)
    /\ TypeIs(event, "message")
    /\ "message" \in DOMAIN event
    /\ TypeIs(event["message"], "text")
    /\ "text" \in DOMAIN event["message"]
    /\ event["message"]["text"] # <<>>
    /\ "source" \in DOMAIN event
    /\ "userId" \in DOMAIN event["source"]
    /\ event["source"]["userId"] # ""

(* seq lists the members of S once each, in increasing order. *)
Ascending(seq, S) ==
    /\ {seq[j] : j \in 1..Len(seq)} = S
    /\ \A j, k \in 1..Len(seq) : j < k => seq[j] < seq[k]

(* The events the loop reaches: those that no event that cannot be handled *)
(* comes before.                                                           *)
Reached(events) ==
    {i \in 1..Len(events) : \A j \in 1..i : IsDict(events[j])}

(* C22: for a payload that passes the shape check the handler attempts exactly *)
(* one write for each eligible event, in event order, and none for any other   *)
(* event, and processed_count does not exceed the number of eligible events.   *)
C22_IngestionEligibility ==
    [][(/\ request # NoRequest
        /\ result'.op = "handleLineForMoney"
        /\ request.wrapper # "malformed"
        /\ ShapeOK(request.body)) =>
          LET events == BodyEvents(request.body)
          IN  /\ Ascending(result'.attempted,
                           {i \in 1..Len(events) : Eligible(events[i])})
              /\ result'.statusCode = 200 =>
                    result'.body.processed_count
                       <= Cardinality({i \in 1..Len(events) : Eligible(events[i])})]_vars

(* C22 as the code has it: the same of the events the loop reaches, which are *)
(* all the events unless one of them cannot be handled and ends the batch.    *)
C22_EligibilityOfReachedEvents ==
    [][(/\ request # NoRequest
        /\ result'.op = "handleLineForMoney"
        /\ request.wrapper # "malformed"
        /\ ShapeOK(request.body)) =>
          LET events == BodyEvents(request.body)
          IN  /\ Ascending(result'.attempted,
                           {i \in Reached(events) : Eligible(events[i])})
              /\ Len(result'.written) <= Len(result'.attempted)
              /\ result'.statusCode = 200 =>
                    /\ Reached(events) = 1..Len(events)
                    /\ result'.body.processed_count
                          <= Cardinality({i \in 1..Len(events) : Eligible(events[i])})]_vars

(* A batch of an eligible event, a text event without text and another eligible *)
(* event was processed: the first and the third were attempted, in that order.  *)
C22_Witness ==
    /\ result.op = "handleLineForMoney"
    /\ result.statusCode = 200
    /\ Len(result.events) = 3
    /\ Eligible(result.events[1])
    /\ result.events[2] = TextEvent("U1", <<>>)
    /\ Eligible(result.events[3])
    /\ result.attempted = <<1, 3>>


(* The first event of a batch that is no object: handling it raises. *)
FirstRaising(events) ==
    CHOOSE i \in 1..Len(events) :
        /\ ~IsDict(events[i])
        /\ \A j \in 1..(i - 1) : IsDict(events[j])

(* C23: when the handling of event i of a batch raises an exception, the handler *)
(* answers 500 with an error and no processed count, no event after i has been   *)
(* processed, and the records written for the events before i, and the records   *)
(* stored before the batch, are still in the table.                               *)
C23_TopLevelAbort ==
    [][(/\ request # NoRequest
        /\ result'.op = "handleLineForMoney"
        /\ request.wrapper # "malformed"
        /\ ShapeOK(request.body)
        /\ \E i \in 1..Len(BodyEvents(request.body)) :
              ~IsDict(BodyEvents(request.body)[i])) =>
          LET events == BodyEvents(request.body)
              i == FirstRaising(events)
          IN  /\ result'.statusCode = 500
              /\ DOMAIN result'.body = {"error", "details"}
              /\ result'.body.error = "Failed to process messages"
              /\ \A k \in 1..Len(result'.attempted) : result'.attempted[k] < i
              /\ \A j \in 1..(i - 1) :
                    (Eligible(events[j]) /\ j \notin result'.failed) =>
                       \E k \in 1..Len(result'.written) :
                          /\ result'.written[k].event = j
                          /\ result'.written[k].lmn \in DOMAIN line'
                          /\ LastWriter(result'.written, k) =>
                                line'[result'.written[k].lmn]["line_message"]
                                   = events[j]["message"]["text"]
              /\ DOMAIN line \subseteq DOMAIN line']_vars

(* The second of three events was no object: the handler answered 500, the     *)
(* record of the first event is in the table and the third was not attempted. *)
C23_Witness ==
    /\ result.op = "handleLineForMoney"
    /\ result.statusCode = 500
    /\ Len(result.events) = 3
    /\ Eligible(result.events[1])
    /\ ~IsDict(result.events[2])
    /\ Eligible(result.events[3])
    /\ result.attempted = <<1>>
    /\ Len(result.written) = 1
    /\ result.written[1].lmn \in DOMAIN line
    /\ line[result.written[1].lmn]["line_message"] = result.events[1]["message"]["text"]

----------------------------------------------------------------------------
(* Properties of soft-deleted records, checked under SpecDeleted *)

SoftDeleted(tbl) == {k \in DOMAIN tbl : "deleted_at" \in DOMAIN tbl[k]}

(* C24: a record that has deleted_at keeps the attribute through every update *)
(* (whatever fields are supplied, deleted_at=None among them) and every soft  *)
(* delete, until a hard delete or a create of its key; as long as it has it,  *)
(* list_all(include_deleted=False) and the field queries do not return it.    *)
C24_NoReactivation ==
    [][/\ \A k \in SoftDeleted(table) :
            \/ result'.op = "create" /\ result'.pk = k
            \/ HardDeleted(result') /\ result'.pk = k
            \/ k \in SoftDeleted(table')
       /\ (/\ result'.op = "list_all"
           /\ result'.success
           /\ ~result'.include_deleted) =>
             DOMAIN result'.data \cap SoftDeleted(table') = {}
       /\ (/\ result'.op \in {"query_by_transaction_type", "query_by_category"}
           /\ result'.success) =>
             DOMAIN result'.data \cap SoftDeleted(table') = {}]_vars

(* update(k, category='food', deleted_at=None) was called on a soft-deleted *)
(* record that create() had made: the record took the category and is still *)
(* soft-deleted.                                                            *)
C24_Witness ==
    /\ result.op = "update"
    /\ result.success
    /\ "deleted_at" \in DOMAIN result.kwargs
    /\ result.kwargs["deleted_at"] = None
    /\ {"created_at", "category", "deleted_at"} \subseteq DOMAIN result.data
    /\ result.pk \in SoftDeleted(table)

----------------------------------------------------------------------------
(* The two aggregations compared, checked under SpecMoney *)

(* Every active record of tbl was created inside the month. *)
AllActiveInMonth(tbl, year, month) ==
    \A k \in Active(tbl) :
        /\ "created_at" \in DOMAIN tbl[k]
        /\ InMonth(tbl[k]["created_at"], year, month)

(* C25: when every active record was created inside month M, the successful   *)
(* get_monthly_summary(M) has income_total and income_count equal to          *)
(* total_amount and record_count of get_total_amount(income), likewise for    *)
(* expense, whichever records lack an amount, and net_amount is income_total  *)
(* minus expense_total.                                                       *)
C25_TotalsAgree ==
    (/\ result.op = "get_monthly_summary"
     /\ result.outcome = "returned"
     /\ result.success
     /\ AllActiveInMonth(table, result.year, result.month)) =>
        /\ result.income_total = get_total_amount(table, Some(INCOME), FALSE).total_amount
        /\ result.income_count = get_total_amount(table, Some(INCOME), FALSE).record_count
        /\ result.expense_total = get_total_amount(table, Some(EXPENSE), FALSE).total_amount
        /\ result.expense_count = get_total_amount(table, Some(EXPENSE), FALSE).record_count
        /\ result.net_amount = result.income_total - result.expense_total

(* The summary of a month that holds all the active records, an income record *)
(* with the amount 100 and an income record without an amount among them:     *)
(* income_total 100, income_count 2.                                          *)
C25_Witness ==
    /\ result.op = "get_monthly_summary"
    /\ result.outcome = "returned"
    /\ result.success
    /\ AllActiveInMonth(table, result.year, result.month)
    /\ result.income_total = 100
    /\ result.income_count = 2
    /\ \E k \in Active(table) :
          /\ "amount" \notin DOMAIN table[k]
          /\ "transaction_type" \in DOMAIN table[k]
          /\ table[k]["transaction_type"] = INCOME

----------------------------------------------------------------------------
(* The error boundary of the aggregations, checked under SpecFailures *)

(* A failing scan makes either aggregation return a failure result, and *)
(* get_total_amount returns the failure result of its query unchanged.  *)
ScanFailureIsReturned ==
    (/\ result.op \in {"get_total_amount", "get_monthly_summary"}
     /\ result.outcome = "returned"
     /\ ~result.success) =>
        /\ result.error \in {StorageError, "TypeError"}
        /\ result.op = "get_total_amount" =>
              /\ ~result.inner.success
              /\ result.error = result.inner.error

(* C26: get_total_amount and get_monthly_summary return a result with a       *)
(* success flag for every argument and every table, a month outside 1..12, a  *)
(* stored amount that is no number and a failing scan included, and never     *)
(* raise.                                                                     *)
C26_AggregationsNeverRaise ==
    result.op \in {"get_total_amount", "get_monthly_summary"} =>
        /\ result.outcome = "returned"
        /\ "success" \in DOMAIN result
        /\ result.success \in BOOLEAN

============================================================================
